---- MODULE Spec2Model ----
(***************************************************************************)
(* A model of geodeconstructor: the chronological filter, the path         *)
(* segmenter (iter_unique_path_by_attribute), the coordinate resolver      *)
(* (Coordinate.reverse) and the reverse-geocoding gazetteer (GeocodeData). *)
(***************************************************************************)
EXTENDS Integers, Sequences, FiniteSets, TLC

VARIABLES
    files,                    \* contents of geocode.csv and countries.csv
    instance,                 \* GeocodeData._instance: None or the singleton
    builds,                   \* how many times GeocodeData.__init__ has completed
    locations,                \* the `locations` argument of the segmenter
    attribute,                \* the `attribute` argument: "city" or "country"
    pc,                       \* position of the generator
    locations_chronological,  \* the filtered, sorted sample list
    index,                    \* the loop variable of the segmenter
    current_coordinate,       \* None or the current resolved place
    last_location,            \* None or the sample of the last reported entry
    events,                   \* the tuples the generator has yielded so far
    outcome,                  \* how the generator ended: "", "StopIteration" or an error
    call,                     \* the direct gazetteer call being answered, with its result
    chrono                    \* a stand-alone run of iter_chronologically

vars == << files, instance, builds, locations, attribute, pc, locations_chronological,
           index, current_coordinate, last_location, events, outcome, call, chrono >>

segVars == << locations, attribute, pc, locations_chronological, index,
              current_coordinate, last_location, events, outcome >>

-----------------------------------------------------------------------------
(* Bounds of the model. *)

MaxLen == 3        \* longest `locations` list fed to the segmenter
MaxMixed == 2      \* longest `locations` list mixing int and str timestamps
MaxRef == 2        \* most rows in a drawn reference dataset
MaxQuery == 2      \* most points in one gazetteer query
MaxChrono == 3     \* longest list fed to a stand-alone iter_chronologically

-----------------------------------------------------------------------------
(* Python values: None, int and str (a str of decimal digits is the        *)
(* sequence of its digits), and Absent for a key a dict does not hold.     *)

PyNone == [kind |-> "None", n |-> 0, s |-> << >>]
Absent == [kind |-> "absent", n |-> 0, s |-> << >>]
PyInt(n) == [kind |-> "int", n |-> n, s |-> << >>]
PyStr(s) == [kind |-> "str", n |-> 0, s |-> s]

None == << >>
Some(x) == << x >>

\* dict.get(key, default) on the value stored under the key
DictGet(value, default) == IF value = Absent THEN default ELSE value

RECURSIVE ParseDigits(_)
ParseDigits(s) ==
    IF s = << >> THEN 0
    ELSE 10 * ParseDigits(SubSeq(s, 1, Len(s) - 1)) + s[Len(s)]

\* int(x) for an int or a str of digits
ToInt(x) == IF x.kind = "int" THEN x.n ELSE ParseDigits(x.s)

RECURSIVE StrLess(_, _)
\* a < b on str: lexicographic by character
StrLess(a, b) ==
    IF b = << >> THEN FALSE
    ELSE IF a = << >> THEN TRUE
    ELSE IF a[1] # b[1] THEN a[1] < b[1]
    ELSE StrLess(Tail(a), Tail(b))

\* a < b raises TypeError unless both are int or both are str
Comparable(a, b) == a.kind = b.kind /\ a.kind \in {"int", "str"}

PyLess(a, b) == IF a.kind = "int" THEN a.n < b.n ELSE StrLess(a.s, b.s)

-----------------------------------------------------------------------------
(* ChronologicalFilter: history/locations.py *)

\* a variant that leaves the list in its input order
Sorted_Unsorted(seq, key_func) == seq

\* sorted(seq, key=key_func): a stable sort, each element placed after every
\* element whose key is not greater than its own
RECURSIVE Sorted(_, _)
Sorted(seq, key_func) ==
    IF seq = << >> THEN << >>
    ELSE LET rest == Sorted(SubSeq(seq, 1, Len(seq) - 1), key_func)
             x == seq[Len(seq)]
             p == Cardinality({i \in 1..Len(rest) :
                                 ~PyLess(key_func[x], key_func[rest[i]])})
         IN  SubSeq(rest, 1, p) \o << x >> \o SubSeq(rest, p + 1, Len(rest))

\* sorted() raises TypeError when it has to compare two keys of unlike type
SortRaises(seq, key_func) ==
    \E i, j \in 1..Len(seq) :
        i # j /\ ~Comparable(key_func[seq[i]], key_func[seq[j]])

Filter(filter_func, list_object) == SelectSeq(list_object, LAMBDA x : filter_func[x])

iter_chronologically(list_object, filter_func, key_func) ==
    LET kept == Filter(filter_func, list_object)
    IN  IF SortRaises(kept, key_func)
        THEN [error |-> "TypeError", out |-> << >>]
        ELSE [error |-> "", out |-> Sorted(kept, key_func)]

_default_filter_func(item) == DictGet(item.timestampMs, PyInt(0)) # PyInt(0)

_default_key_func(item) == DictGet(item.timestampMs, PyNone)

-----------------------------------------------------------------------------
(* ReferenceGazetteer: reverse_geocode/__init__.py *)

EmptyDict == [keys |-> {}, country_code |-> "", city |-> "", country |-> ""]

\* extract(): the coordinate list and the location dicts of the rows
ExtractCoordinates(rows) ==
    [i \in 1..Len(rows) |-> << rows[i].latitude, rows[i].longitude >>]

ExtractLocations(rows) ==
    [i \in 1..Len(rows) |->
        [keys |-> {"country_code", "city"}, country_code |-> rows[i].country_code,
         city |-> rows[i].city, country |-> ""]]

\* load_countries(): a later row of the same code overwrites an earlier one
LoadCountries(rows) ==
    [c \in {rows[i][1] : i \in 1..Len(rows)} |->
        LET last == CHOOSE i \in 1..Len(rows) :
                        /\ rows[i][1] = c
                        /\ \A j \in 1..Len(rows) : rows[j][1] = c => j <= i
        IN  rows[last][2]]

GeocodeData__init__(f) ==
    [locations |-> ExtractLocations(f.geocode),
     tree      |-> ExtractCoordinates(f.geocode),
     countries |-> LoadCountries(f.countries)]

\* load_countries(): `for code, name in csv.reader(...)` raises on a row
\* that does not have exactly two columns, after the locations, the tree
\* and the earlier rows' countries have been stored on the new object
InitError(f) ==
    IF \E i \in 1..Len(f.countries) : Len(f.countries[i]) # 2
    THEN "ValueError" ELSE ""

\* a variant that constructs on every call
Constructs_Always(inst) == inst = inst

\* if not cls._instance
Constructs(inst) == inst = None

\* Singleton.__call__: build the instance on first use, then return it.
\* The value is the new cls._instance; when __init__ raises nothing is
\* assigned and the exception leaves the call.
Singleton__call__(inst, f) ==
    IF Constructs(inst)
    THEN IF InitError(f) # "" THEN inst ELSE Some(GeocodeData__init__(f))
    ELSE inst

\* the call of the class ends in the exception of __init__
ConstructionRaises(inst, f) == Constructs(inst) /\ InitError(f) # ""

\* the runs of __init__ that one call of the class completes
Built(inst, f) == IF Constructs(inst) /\ InitError(f) = "" THEN 1 ELSE 0

\* a variant that adds the signed coordinate differences
Dist2_Signed(p, q) == (p[1] - q[1]) + (p[2] - q[2])

\* squared Euclidean distance over raw degree coordinates
Dist2(p, q) == (p[1] - q[1]) * (p[1] - q[1]) + (p[2] - q[2]) * (p[2] - q[2])

\* the indices (from 1) of the tree's points nearest to p
Nearest(tree, p) ==
    {i \in 1..Len(tree) : \A j \in 1..Len(tree) : Dist2(tree[i], p) <= Dist2(tree[j], p)}

\* KDTree.query(coordinates, k=1): raises on an empty or ill-shaped point set,
\* gives a scalar index for a bare point and an index array for a list of
\* points; among equidistant reference points the choice is the library's
TreeQuery(tree, q) ==
    IF q.shape = "malformed" \/ (q.shape = "list" /\ q.pts = << >>)
    THEN {[kind |-> "raises", indices |-> << >>]}
    ELSE IF q.shape = "point"
    THEN {[kind |-> "scalar", indices |-> << i >>] : i \in Nearest(tree, q.pts[1])}
    ELSE {[kind |-> "array", indices |-> ix] :
            ix \in {f \in [1..Len(q.pts) -> 1..Len(tree)] :
                      \A k \in 1..Len(q.pts) : f[k] \in Nearest(tree, q.pts[k])}}

CountriesGet(countries, code) ==
    IF code \in DOMAIN countries THEN countries[code] ELSE ""

\* result['country'] = self.countries.get(result['country_code'], '')
SetCountry(gd, result) ==
    [result EXCEPT !.keys = @ \cup {"country"},
                   !.country = CountriesGet(gd.countries, result.country_code)]

\* GeocodeData.query: the outcomes of one call on gazetteer gd. int_index
\* tells whether a scalar index is a Python int or a numpy integer.
query(gd, q, int_index) ==
    { IF r.kind = "raises"
      THEN [error |-> "ValueError", results |-> << >>, gd |-> gd]
      ELSE IF r.kind = "scalar"
      THEN IF int_index
           THEN [error |-> "", results |-> << EmptyDict >>, gd |-> gd]
           ELSE [error |-> "TypeError", results |-> << >>, gd |-> gd]
      ELSE LET touched == {r.indices[k] : k \in 1..Len(r.indices)}
               gd2 == [gd EXCEPT !.locations =
                         [i \in 1..Len(gd.locations) |->
                            IF i \in touched THEN SetCountry(gd, gd.locations[i])
                            ELSE gd.locations[i]]]
           IN  [error |-> "",
                results |-> [k \in 1..Len(r.indices) |-> gd2.locations[r.indices[k]]],
                gd |-> gd2]
      : r \in TreeQuery(gd.tree, q) }

ListOf(pts) == [shape |-> "list", pts |-> pts]

\* reverse_coordinates(coordinate): GeocodeData().query([coordinate])[0]
reverse_coordinates(inst, f, coordinate) ==
    IF ConstructionRaises(inst, f)
    THEN {[error |-> InitError(f), location |-> EmptyDict,
           instance |-> Singleton__call__(inst, f), built |-> 0]}
    ELSE LET gd == Singleton__call__(inst, f)[1]
         IN  { IF o.error # ""
               THEN [error |-> o.error, location |-> EmptyDict,
                     instance |-> Some(o.gd), built |-> Built(inst, f)]
               ELSE [error |-> "", location |-> o.results[1],
                     instance |-> Some(o.gd), built |-> Built(inst, f)]
               : o \in query(gd, ListOf(<< coordinate >>), TRUE) }

\* search(coordinates): GeocodeData().query(coordinates)
search(inst, f, q, int_index) ==
    IF ConstructionRaises(inst, f)
    THEN {[error |-> InitError(f), results |-> << >>,
           instance |-> Singleton__call__(inst, f), built |-> 0]}
    ELSE LET gd == Singleton__call__(inst, f)[1]
         IN  { [error |-> o.error, results |-> o.results,
                instance |-> Some(o.gd), built |-> Built(inst, f)]
               : o \in query(gd, q, int_index) }

-----------------------------------------------------------------------------
(* CoordinateResolver: components.py *)

NoPlace == [latitude |-> 0, longitude |-> 0, city |-> "", country |-> ""]

\* Coordinate.reverse on a fresh Coordinate(latitude, longitude), by the
\* dataset branch: location["country"], location["city"]
init_with_georeverse(inst, f, latitude, longitude) ==
    { IF o.error # ""
      THEN [error |-> o.error, place |-> NoPlace, instance |-> o.instance,
            built |-> o.built]
      ELSE IF ~({"country", "city"} \subseteq o.location.keys)
      THEN [error |-> "KeyError", place |-> NoPlace, instance |-> o.instance,
            built |-> o.built]
      ELSE [error |-> "",
            place |-> [latitude |-> latitude, longitude |-> longitude,
                       city |-> o.location.city, country |-> o.location.country],
            instance |-> o.instance, built |-> o.built]
      : o \in reverse_coordinates(inst, f, << latitude, longitude >>) }

-----------------------------------------------------------------------------
(* PathSegmenter: iter_unique_path_by_attribute in history/locations.py *)

E7 == 10000000

\* item["latitudeE7"] / 10000000 (the drawn samples lie on whole degrees)
Degrees(valueE7) == valueE7 \div E7

getattr(coordinate, attr) ==
    IF attr = "city" THEN coordinate.city ELSE coordinate.country

\* a variant that reports the first sample as its own predecessor
InitialYield_WithPrevious(initial_coordinate, initial_timestamp) ==
    [previousPlace |-> Some(initial_coordinate),
     previousTimestampMs |-> Some(initial_timestamp),
     nextPlace |-> initial_coordinate, nextTimestampMs |-> initial_timestamp]

\* yield None, None, initial_coordinate, initial_timestamp
InitialYield(initial_coordinate, initial_timestamp) ==
    [previousPlace |-> None, previousTimestampMs |-> None,
     nextPlace |-> initial_coordinate, nextTimestampMs |-> initial_timestamp]

\* yield (current_coordinate, int(last_location["timestampMs"]),
\*        next_coordinate, int(next_location["timestampMs"]))
TransitionYield(cur, last, next_coordinate, next_location) ==
    [previousPlace |-> Some(cur),
     previousTimestampMs |-> Some(ToInt(last.timestampMs)),
     nextPlace |-> next_coordinate,
     nextTimestampMs |-> ToInt(next_location.timestampMs)]

\* a variant that compares the whole Coordinate objects
AttributeDiffers_WholePlace(next_coordinate, cur, attr) == next_coordinate # cur

\* getattr(next_coordinate, attribute) != getattr(current_coordinate, attribute)
AttributeDiffers(next_coordinate, cur, attr) ==
    getattr(next_coordinate, attr) # getattr(cur, attr)

\* a variant whose loop starts at the first sample: range(0, end_index - 1)
FirstIndex_Zero == 1 - 1

\* range(1, end_index - 1)
FirstIndex == 1
RangeStop(end_index) == end_index - 1

\* the sample at a Python (0-based) index
At(seq, i) == seq[i + 1]

Resolve(inst, f, item) ==
    init_with_georeverse(inst, f, Degrees(item.latitudeE7), Degrees(item.longitudeE7))

\* the generator fails: nothing more is yielded
Raise(error, inst, built) ==
    /\ pc' = "error"
    /\ outcome' = error
    /\ instance' = inst
    /\ builds' = builds + built
    /\ UNCHANGED << index, current_coordinate, last_location, events >>

\* From the call to the first yield (lines 55-73).
SegmenterFirst ==
    /\ pc = "start"
    /\ LET dom == {locations[i] : i \in 1..Len(locations)}
           chron == iter_chronologically(locations,
                        [x \in dom |-> _default_filter_func(x)],
                        [x \in dom |-> _default_key_func(x)])
       IN  IF chron.error # ""
           THEN /\ locations_chronological' = << >>
                /\ Raise(chron.error, instance, 0)
           ELSE /\ locations_chronological' = chron.out
                /\ IF chron.out = << >>
                   THEN Raise("IndexError", instance, 0)
                   ELSE \E r \in Resolve(instance, files, At(chron.out, 0)) :
                          IF r.error # ""
                          THEN Raise(r.error, r.instance, r.built)
                          ELSE /\ events' = Append(events,
                                      InitialYield(r.place,
                                          ToInt(At(chron.out, 0).timestampMs)))
                               /\ current_coordinate' = None
                               /\ last_location' = Some(At(chron.out, 0))
                               /\ index' = FirstIndex
                               /\ instance' = r.instance
                               /\ builds' = builds + r.built
                               /\ pc' = "loop"
                               /\ outcome' = ""
    /\ UNCHANGED << files, locations, attribute, call, chrono >>

\* One iteration of the for loop (lines 74-102). last_coordinate is assigned
\* but never read, so it is not part of the state.
SegmenterLoop ==
    /\ pc = "loop"
    /\ index < RangeStop(Len(locations_chronological))
    /\ \E c \in (IF current_coordinate = None
                 THEN Resolve(instance, files, At(locations_chronological, index))
                 ELSE {[error |-> "", place |-> current_coordinate[1],
                        instance |-> instance, built |-> 0]}) :
         IF c.error # ""
         THEN Raise(c.error, c.instance, c.built)
         ELSE \E n \in Resolve(c.instance, files,
                               At(locations_chronological, index + 1)) :
                IF n.error # ""
                THEN Raise(n.error, n.instance, c.built + n.built)
                ELSE LET next_location == At(locations_chronological, index + 1)
                     IN  /\ IF AttributeDiffers(n.place, c.place, attribute)
                            THEN /\ events' = Append(events,
                                        TransitionYield(c.place, last_location[1],
                                                        n.place, next_location))
                                 /\ last_location' = Some(next_location)
                            ELSE UNCHANGED << events, last_location >>
                         /\ current_coordinate' = Some(n.place)
                         /\ index' = index + 1
                         /\ instance' = n.instance
                         /\ builds' = builds + c.built + n.built
                         /\ UNCHANGED << pc, outcome >>
    /\ UNCHANGED << files, locations, attribute, locations_chronological, call, chrono >>

\* The range is exhausted: the generator returns.
SegmenterEnd ==
    /\ pc = "loop"
    /\ ~(index < RangeStop(Len(locations_chronological)))
    /\ pc' = "done"
    /\ outcome' = "StopIteration"
    /\ UNCHANGED << files, instance, builds, locations, attribute,
                    locations_chronological, index, current_coordinate,
                    last_location, events, call, chrono >>

-----------------------------------------------------------------------------
(* The segmenter's inputs. *)

Latitudes == {0, 2, 4}

IntTimestamps == {PyInt(n) : n \in 0..3}

StrTimestamps == {PyStr(s) : s \in {<< 0 >>, << 9 >>, << 1, 0 >>}}

SamplesWith(timestamps) ==
    [latitudeE7 : {d * E7 : d \in Latitudes}, longitudeE7 : {0},
     timestampMs : timestamps]

SeqsUpTo(S, n) == UNION {[1..k -> S] : k \in 0..n}

\* the histories fed to the segmenter: timestamps all ints or all strings,
\* and short histories that mix the two and may lack a timestamp
Histories ==
    SeqsUpTo(SamplesWith(IntTimestamps), MaxLen)
        \cup SeqsUpTo(SamplesWith(StrTimestamps), MaxLen)
        \cup SeqsUpTo(SamplesWith({Absent} \cup IntTimestamps \cup StrTimestamps), MaxMixed)

\* the reference data of the segmenter runs: two cities of one country and
\* a row with no city name whose country code the country table lacks
SegFiles ==
    [geocode |-> << [latitude |-> 0, longitude |-> 0, country_code |-> "US", city |-> "Austin"],
                    [latitude |-> 2, longitude |-> 0, country_code |-> "US", city |-> "Boston"],
                    [latitude |-> 4, longitude |-> 0, country_code |-> "ZZ", city |-> ""] >>,
     countries |-> << << "US", "United States" >> >>]

NoCall == [op |-> "", q |-> ListOf(<< >>), error |-> "", results |-> << >>, place |-> NoPlace]
NoChrono == [list |-> << >>, keep |-> {}, key |-> << >>, error |-> "", out |-> << >>, done |-> FALSE]

Init ==
    /\ files = SegFiles
    /\ instance = None
    /\ builds = 0
    /\ locations \in Histories
    /\ attribute \in {"city", "country"}
    /\ pc = "start"
    /\ locations_chronological = << >>
    /\ index = 0
    /\ current_coordinate = None
    /\ last_location = None
    /\ events = << >>
    /\ outcome = ""
    /\ call = NoCall
    /\ chrono = NoChrono

Next ==
    \/ SegmenterFirst
    \/ SegmenterLoop
    \/ SegmenterEnd

Spec == Init /\ [][Next]_vars

-----------------------------------------------------------------------------
(* Vocabulary of the segmenter's properties. *)

\* the number of filtered samples
N == Len(locations_chronological)

\* the segmenter got past the filter and the sort
Segmenting == pc \in {"loop", "done"}

\* the resolution of a sample against the reference data: the city of the
\* row nearest to the sample's degrees, and the country name of its code
\* (the reference rows of the segmenter runs have no equidistant pair)
PlaceOf(item) ==
    LET lat == item.latitudeE7 \div E7
        lon == item.longitudeE7 \div E7
        rows == files.geocode
        d(i) == (rows[i].latitude - lat) * (rows[i].latitude - lat)
                    + (rows[i].longitude - lon) * (rows[i].longitude - lon)
        near == CHOOSE i \in 1..Len(rows) : \A j \in 1..Len(rows) : d(i) <= d(j)
        names == {r \in 1..Len(files.countries) :
                    files.countries[r][1] = rows[near].country_code}
    IN  [latitude |-> lat, longitude |-> lon, city |-> rows[near].city,
         country |-> IF names = {} THEN ""
                     ELSE files.countries[CHOOSE r \in names : \A s \in names : s <= r][2]]

\* the watched attribute of the resolved sample at a 0-based index
Watched(i) == getattr(PlaceOf(At(locations_chronological, i)), attribute)

TimeOf(i) == ToInt(At(locations_chronological, i).timestampMs)

\* the indices i in 1..n-1 whose resolved sample differs from sample i-1
Boundaries == {i \in 1..(N - 1) : Watched(i) # Watched(i - 1)}

\* the k-th smallest boundary
BoundaryNo(k) == CHOOSE i \in Boundaries : Cardinality({j \in Boundaries : j < i}) = k - 1

IsTransitionTo(e, i) ==
    /\ e.nextPlace = PlaceOf(At(locations_chronological, i))
    /\ e.nextTimestampMs = TimeOf(i)

StrictlyIncreasing == \A i \in 1..(N - 1) : TimeOf(i - 1) < TimeOf(i)

-----------------------------------------------------------------------------
(* C1: once the segmenter has returned on n >= 2 filtered samples, the     *)
(* events after the initial one correspond one-to-one and in order to the  *)
(* indices i in 1..n-1 at which the watched attribute of resolved sample i *)
(* differs from that of sample i-1, each event carrying sample i's place   *)
(* and timestamp.                                                          *)
C1_OneEventPerBoundary ==
    (pc = "done" /\ N >= 2) =>
        /\ Len(events) - 1 = Cardinality(Boundaries)
        /\ \A k \in 1..(Len(events) - 1) :
              k <= Cardinality(Boundaries) => IsTransitionTo(events[k + 1], BoundaryNo(k))

(* C2: whenever anything has been emitted, the first event is (None, None, *)
(* resolution of the first filtered sample, its timestamp), and no later   *)
(* event has a null previousPlace or a null previousTimestampMs.           *)
C2_FirstEventOnlyHasNoPrevious ==
    events # << >> =>
        /\ events[1] = [previousPlace |-> None, previousTimestampMs |-> None,
                        nextPlace |-> PlaceOf(At(locations_chronological, 0)),
                        nextTimestampMs |-> TimeOf(0)]
        /\ \A k \in 2..Len(events) :
              events[k].previousPlace # None /\ events[k].previousTimestampMs # None

C2_Witness == pc = "done" /\ Len(events) >= 2

(* C3: with zero or one filtered sample the segmenter ends in the          *)
(* InsufficientDataError outcome and emits no event.                       *)
FilteredCount ==
    Len(SelectSeq(locations, LAMBDA x : _default_filter_func(x)))

C3_InsufficientDataError ==
    (pc # "start" /\ FilteredCount <= 1) =>
        /\ events = << >>
        /\ pc \in {"done", "error"} => outcome = "InsufficientDataError"

(* C4: when every record's timestampMs is an int or a string of digits,    *)
(* the nextTimestampMs values of the emitted events are non-decreasing and *)
(* each event's previousTimestampMs is at most its nextTimestampMs.        *)
C4_TimestampsNonDecreasing ==
    (\A i \in 1..Len(locations) : locations[i].timestampMs.kind \in {"int", "str"}) =>
        /\ \A k \in 1..(Len(events) - 1) :
              events[k].nextTimestampMs <= events[k + 1].nextTimestampMs
        /\ \A k \in 2..Len(events) :
              events[k].previousTimestampMs[1] <= events[k].nextTimestampMs

(* C5: for n >= 2 filtered samples with strictly increasing timestamps the *)
(* number of emitted events, the initial one included, is at most n - 1.   *)
C5_AtMostNMinusOneEvents ==
    (Segmenting /\ N >= 2 /\ StrictlyIncreasing) => Len(events) <= N - 1

C5_Witness ==
    pc = "done" /\ N >= 3 /\ StrictlyIncreasing /\ Len(events) = N - 1

(* C6: every non-initial event has a previousPlace and a nextPlace whose   *)
(* watched attributes differ, and a compared pair of places of which one   *)
(* has an empty attribute and the other a non-empty one yields an event.   *)
EmptyVsNamed(a, b) == (a = "") # (b = "")

C6_EventsOnlyOnDifference ==
    /\ \A k \in 2..Len(events) :
          /\ events[k].previousPlace # None
          /\ getattr(events[k].previousPlace[1], attribute)
                # getattr(events[k].nextPlace, attribute)
    /\ Segmenting =>
          \A i \in FirstIndex..(index - 1) :
              EmptyVsNamed(Watched(i), Watched(i + 1)) =>
                  \E k \in 2..Len(events) :
                      /\ IsTransitionTo(events[k], i + 1)
                      /\ events[k].previousPlace =
                            Some(PlaceOf(At(locations_chronological, i)))

C6_Witness ==
    /\ pc = "done"
    /\ \E k \in 2..Len(events) :
          /\ getattr(events[k].previousPlace[1], attribute) = ""
          /\ getattr(events[k].nextPlace, attribute) # ""

(* C8: with the default keep predicate no record whose timestampMs is      *)
(* missing or zero (as an int or as a string of digits) reaches the        *)
(* segmenter, and every record with a non-zero timestamp is kept.          *)
ZeroOrMissing(item) ==
    item.timestampMs = Absent \/ ToInt(item.timestampMs) = 0

C8_ZeroTimestampsFiltered ==
    Segmenting =>
        /\ \A i \in 1..N : ~ZeroOrMissing(locations_chronological[i])
        /\ \A j \in 1..Len(locations) :
              ~ZeroOrMissing(locations[j]) =>
                  \E i \in 1..N : locations_chronological[i] = locations[j]

-----------------------------------------------------------------------------
(* A stand-alone run of iter_chronologically on any list, keep predicate   *)
(* and sort key.                                                           *)

Items == {"a", "b", "c"}

ChronoKeys == {PyInt(1), PyInt(2), PyStr(<< 9 >>), PyStr(<< 1, 0 >>)}

Idle ==
    /\ locations = << >>
    /\ attribute = "country"
    /\ pc = "idle"
    /\ locations_chronological = << >>
    /\ index = 0
    /\ current_coordinate = None
    /\ last_location = None
    /\ events = << >>
    /\ outcome = ""

InitChrono ==
    /\ Idle
    /\ files = SegFiles
    /\ instance = None
    /\ builds = 0
    /\ call = NoCall
    /\ chrono \in [list : SeqsUpTo(Items, MaxChrono), keep : SUBSET Items,
                   key : [Items -> ChronoKeys], error : {""}, out : {<< >>},
                   done : {FALSE}]

ChronoRun ==
    /\ ~chrono.done
    /\ LET r == iter_chronologically(chrono.list,
                    [x \in Items |-> x \in chrono.keep], chrono.key)
       IN  chrono' = [chrono EXCEPT !.error = r.error, !.out = r.out, !.done = TRUE]
    /\ UNCHANGED << files, instance, builds, call >>
    /\ UNCHANGED segVars

NextChrono == ChronoRun

SpecChrono == InitChrono /\ [][NextChrono]_vars

Count(seq, x) == Cardinality({i \in 1..Len(seq) : seq[i] = x})

KeptIndices == {i \in 1..Len(chrono.list) : chrono.list[i] \in chrono.keep}

\* the keys of the kept records can be ordered among themselves
KeptComparable ==
    \A i, j \in KeptIndices :
        i # j => /\ chrono.key[chrono.list[i]].kind = chrono.key[chrono.list[j]].kind
                 /\ chrono.key[chrono.list[i]].kind \in {"int", "str"}

-----------------------------------------------------------------------------
(* Direct calls of the gazetteer on any reference data.                    *)

\* rows of geocode.csv: two places, each at either of two coordinates
RefRows ==
    {[latitude |-> lat, longitude |-> 0, country_code |-> p[1], city |-> p[2]] :
        lat \in {0, 2}, p \in {<< "XX", "Origin" >>, << "YY", "Other" >>}}

\* countries.csv: one that lacks the code YY, one that gives YY twice, and
\* one whose second row lacks the name column
CountryFiles ==
    { << << "XX", "Originland" >> >>,
      << << "YY", "Oldland" >>, << "XX", "Originland" >>, << "YY", "Yonderland" >> >>,
      << << "XX", "Originland" >>, << "YY" >> >> }

\* the default arguments of GeocodeData.__init__, and other file names
DefaultNames == << "geocode.csv", "countries.csv" >>
OtherNames == << "other.csv", "other_countries.csv" >>

\* the reference data stored under the other file names
OtherFiles ==
    [geocode |-> << [latitude |-> 1, longitude |-> 0,
                     country_code |-> "XX", city |-> "Elsewhere"] >>,
     countries |-> << << "XX", "Otherland" >> >>]

\* rel_path(geocode_filename), rel_path(country_filename)
FilesNamed(names) == IF names = DefaultNames THEN files ELSE OtherFiles

QueryPoints == {<< 0, 0 >>, << 1, 0 >>, << 2, 0 >>}

\* lists of points, a bare point, and a point set of the wrong dimensionality
Queries ==
    {ListOf(p) : p \in SeqsUpTo(QueryPoints, MaxQuery)}
        \cup {[shape |-> "point", pts |-> << p >>] : p \in QueryPoints}
        \cup {[shape |-> "malformed", pts |-> << >>]}

InitGeo ==
    /\ Idle
    /\ files \in [geocode : SeqsUpTo(RefRows, MaxRef) \ {<< >>},
                  countries : CountryFiles]
    /\ instance = None
    /\ builds = 0
    /\ call = NoCall
    /\ chrono = NoChrono

\* search(coordinates)
Search ==
    /\ call.op = ""
    /\ \E q \in Queries :
         \E int_index \in (IF q.shape = "point" THEN BOOLEAN ELSE {TRUE}) :
         \E o \in search(instance, files, q, int_index) :
            /\ instance' = o.instance
            /\ builds' = builds + o.built
            /\ call' = [op |-> "search", q |-> q, error |-> o.error,
                        results |-> o.results, place |-> NoPlace]
    /\ UNCHANGED << files, chrono >>
    /\ UNCHANGED segVars

\* reverse_coordinates(coordinate)
ReverseCoordinates ==
    /\ call.op = ""
    /\ \E c \in QueryPoints :
         \E o \in reverse_coordinates(instance, files, c) :
            /\ instance' = o.instance
            /\ builds' = builds + o.built
            /\ call' = [op |-> "reverse_coordinates", q |-> ListOf(<< c >>),
                        error |-> o.error,
                        results |-> IF o.error = "" THEN << o.location >> ELSE << >>,
                        place |-> NoPlace]
    /\ UNCHANGED << files, chrono >>
    /\ UNCHANGED segVars

\* Coordinate.init_with_georeverse(latitude, longitude)
CoordinateReverse ==
    /\ call.op = ""
    /\ \E c \in QueryPoints :
         \E o \in init_with_georeverse(instance, files, c[1], c[2]) :
            /\ instance' = o.instance
            /\ builds' = builds + o.built
            /\ call' = [op |-> "reverse", q |-> ListOf(<< c >>), error |-> o.error,
                        results |-> << >>, place |-> o.place]
    /\ UNCHANGED << files, chrono >>
    /\ UNCHANGED segVars

\* GeocodeData(geocode_filename, country_filename). The gazetteer is first
\* built under the default names, as reverse_coordinates and search build
\* it; a call that names other files is drawn once it exists.
GeocodeDataCall ==
    /\ call.op = ""
    /\ \E names \in (IF instance = None THEN {DefaultNames}
                     ELSE {DefaultNames, OtherNames}) :
         LET f == FilesNamed(names)
         IN  /\ instance' = Singleton__call__(instance, f)
             /\ builds' = builds + Built(instance, f)
             /\ call' = [op |-> "GeocodeData",
                         q |-> [shape |-> "filenames", pts |-> names],
                         error |-> IF ConstructionRaises(instance, f)
                                   THEN InitError(f) ELSE "",
                         results |-> << >>, place |-> NoPlace]
    /\ UNCHANGED << files, chrono >>
    /\ UNCHANGED segVars

\* the caller takes the result; the next call can be made
Return ==
    /\ call.op # ""
    /\ call' = NoCall
    /\ UNCHANGED << files, instance, builds, chrono >>
    /\ UNCHANGED segVars

NextGeo ==
    \/ Search
    \/ ReverseCoordinates
    \/ CoordinateReverse
    \/ GeocodeDataCall
    \/ Return

SpecGeo == InitGeo /\ [][NextGeo]_vars

\* the last call was a query on a list of points that returned results
Answered ==
    call.op \in {"search", "reverse_coordinates"} /\ call.q.shape = "list" /\ call.error = ""

RefCoordinate(i) == << files.geocode[i].latitude, files.geocode[i].longitude >>

EuclidSq(p, q) == (p[1] - q[1]) * (p[1] - q[1]) + (p[2] - q[2]) * (p[2] - q[2])

AtMinimalDistance(i, p) ==
    \A j \in 1..Len(files.geocode) :
        EuclidSq(RefCoordinate(i), p) <= EuclidSq(RefCoordinate(j), p)

\* the result names reference entry i: its city, and the country name the
\* country table gives for its code (the empty string when it has none)
Names(result, i) ==
    LET table == LoadCountries(files.countries)
        code == files.geocode[i].country_code
    IN  /\ result.city = files.geocode[i].city
        /\ result.country = IF code \in DOMAIN table THEN table[code] ELSE ""

NearestEntryReturned ==
    /\ Len(call.results) = Len(call.q.pts)
    /\ \A k \in 1..Len(call.q.pts) :
          \E i \in 1..Len(files.geocode) :
              AtMinimalDistance(i, call.q.pts[k]) /\ Names(call.results[k], i)

(* C9 as stated: each query point gets, in order, the city and country of  *)
(* a reference entry at minimal Euclidean distance, and a query point      *)
(* identical to a reference entry's coordinate gets that entry's city and  *)
(* country.                                                                *)
C9_IdenticalPointReturnsThatEntry ==
    Answered =>
        /\ NearestEntryReturned
        /\ \A k \in 1..Len(call.q.pts), i \in 1..Len(files.geocode) :
              RefCoordinate(i) = call.q.pts[k] => Names(call.results[k], i)

(* C9 amended: each query point gets, in order, the city and country of a  *)
(* reference entry at minimal Euclidean distance, and a query point        *)
(* identical to some reference entry's coordinate gets the city and        *)
(* country of an entry at that coordinate.                                 *)
C9_NearestEntryReturned ==
    Answered =>
        /\ NearestEntryReturned
        /\ \A k \in 1..Len(call.q.pts) :
              (\E i \in 1..Len(files.geocode) : RefCoordinate(i) = call.q.pts[k]) =>
                  \E i \in 1..Len(files.geocode) :
                      RefCoordinate(i) = call.q.pts[k] /\ Names(call.results[k], i)

C9_Witness ==
    /\ Answered
    /\ Len(call.q.pts) >= 2
    /\ \E i, j \in 1..Len(files.geocode) : RefCoordinate(i) # RefCoordinate(j)
    /\ \E k \in 1..Len(call.q.pts), i \in 1..Len(files.geocode) :
          RefCoordinate(i) = call.q.pts[k] /\ Names(call.results[k], i)
    /\ \E k \in 1..Len(call.q.pts) :
          \A i \in 1..Len(files.geocode) : RefCoordinate(i) # call.q.pts[k]

(* C10: a query on an empty query-point set yields a not-found result      *)
(* (empty city and country) instead of an error, Coordinate.reverse always *)
(* completes, and only a malformed query-point set ends in the invalid-    *)
(* query error (the code's ValueError).                                    *)
C10_NotFoundInsteadOfError ==
    /\ (call.op = "search" /\ call.q = ListOf(<< >>)) =>
          /\ call.error = ""
          /\ \A k \in 1..Len(call.results) :
                call.results[k].city = "" /\ call.results[k].country = ""
    /\ call.op = "reverse" => call.error = ""
    /\ call.error = "ValueError" => call.q.shape = "malformed"

(* C11: once the gazetteer is constructed, no query, reverse_coordinates   *)
(* or search call changes its stored state: the reference entries          *)
(* (locations), the country table and the spatial index are the same       *)
(* before and after every call.                                            *)
C11_QueriesLeaveGazetteerUnchanged ==
    [][instance # None => instance' = instance]_vars

\* the last call was ended by the exception of the constructor
ConstructionFailed == call.op # "" /\ instance = None

\* the last call was served: it returned entries or a resolved place
Served == call.op # "" /\ (call.results # << >> \/ call.place # NoPlace)

\* the gazetteer holds all of the default reference data
CompletelyBuilt ==
    /\ instance # None
    /\ InitError(files) = ""
    /\ instance[1].tree = ExtractCoordinates(files.geocode)
    /\ Len(instance[1].locations) = Len(files.geocode)
    /\ instance[1].countries = LoadCountries(files.countries)

(* C12: across any sequence of GeocodeData(), reverse_coordinates and      *)
(* search calls the gazetteer is constructed lazily, on the first call,    *)
(* and at most once: nothing is built before the first call; once a        *)
(* construction has succeeded every later call returns that instance       *)
(* without running the constructor again, whatever file names it passes;   *)
(* and when construction fails nothing is stored, the call ends in the     *)
(* constructor's error, and no call is served from a partly built          *)
(* gazetteer.                                                              *)
C12_ConstructedLazilyAtMostOnce ==
    /\ instance = None /\ builds = 0
    /\ [](builds <= 1 /\ (instance = None <=> builds = 0))
    /\ [](ConstructionFailed =>
             /\ InitError(files) # ""
             /\ call.error = InitError(files)
             /\ ~Served)
    /\ [](Served => CompletelyBuilt)
    /\ [][(call.op = "" /\ call'.op # "" /\ InitError(files) = "")
              => instance' # None]_vars
    /\ [][instance # None =>
              /\ instance' # None
              /\ builds' = builds
              /\ instance'[1].tree = instance[1].tree
              /\ instance'[1].countries = instance[1].countries]_vars

\* a call naming other files returned the gazetteer that an earlier query
\* had built from the default files and used
C12_Witness ==
    /\ call.op = "GeocodeData"
    /\ call.q.pts = OtherNames
    /\ call.error = ""
    /\ builds = 1
    /\ CompletelyBuilt
    /\ instance[1].tree # ExtractCoordinates(OtherFiles.geocode)
    /\ \E i \in 1..Len(instance[1].locations) :
          "country" \in instance[1].locations[i].keys

(* C13: the emitted events chain into contiguous segments: for every       *)
(* non-initial event, previousTimestampMs equals the nextTimestampMs of    *)
(* the event emitted just before it, and the watched attribute of its      *)
(* previousPlace equals the watched attribute of that event's nextPlace,   *)
(* so that no place is reported as left unless it was the place most       *)
(* recently reported as entered.                                           *)
C13_EventsChain ==
    \A k \in 2..Len(events) :
        /\ events[k].previousPlace # None
        /\ events[k].previousTimestampMs = Some(events[k - 1].nextTimestampMs)
        /\ getattr(events[k].previousPlace[1], attribute)
              = getattr(events[k - 1].nextPlace, attribute)

====
